---- MODULE Spec2Model ----
(***************************************************************************)
(* A model of the novelWriter preferences dialog                           *)
(* (src/nw/gui/dialogs/configeditor.py) and of the document-version view   *)
(* (src/nw/gui/versionview.py).                                            *)
(*                                                                         *)
(* A text is a sequence of one-character strings.  A translated label      *)
(* (self.tr("...")) and an item name are texts of one opaque element.      *)
(* Python's None is the value PyNone, which differs from the text "None".  *)
(***************************************************************************)
EXTENDS Integers, Sequences, FiniteSets, TLC

VARIABLES
    \* GuiConfigEditEditor._checkQuoteSymbol, as a function under test
    toCheck, checkRet,
    \* GuiConfigEditEditor: the four quote fields (QLineEdit texts)
    quoteSingleStyleO, quoteSingleStyleC, quoteDoubleStyleO, quoteDoubleStyleC,
    \* nw.CONFIG
    fmtSingleQuotes, fmtDoubleQuotes, guiTheme, confChanged,
    \* GuiConfigEditGeneralTab.selectTheme, and the QDialog's state
    selectTheme, dlgState,
    \* GuiConfigEditGeneralTab: the switches backupOnClose and askBeforeBackup
    backupOnClose, askBeforeBackup,
    \* nw.CONFIG: backupOnClose and askBeforeBackup
    confBackupOnClose, confAskBeforeBackup,
    \* what the last handler of the preferences dialog did
    cfgLast,
    \* GuiVersionView
    viewDocHandle, docHeader, versNote,
    \* GuiVersionTree: _docHandle, _lastBuild, the rows, and the handle the
    \* rows were built from
    treeDocHandle, lastBuild, tree, builtFrom,
    \* GuiVersionTreeMenu: _theVersion, whether the menu is shown, and the
    \* row that was right-clicked last
    theVersion, menuOpen, lastClick,
    \* the version store behind NWDoc
    versions,
    \* what the last handler of the version view did
    vvLast

quoteVars == <<toCheck, checkRet>>
backupVars == <<backupOnClose, askBeforeBackup, confBackupOnClose,
                confAskBeforeBackup>>
configVars == <<quoteSingleStyleO, quoteSingleStyleC, quoteDoubleStyleO,
                quoteDoubleStyleC, fmtSingleQuotes, fmtDoubleQuotes, guiTheme,
                confChanged, selectTheme, dlgState, cfgLast, backupVars>>
versionVars == <<viewDocHandle, docHeader, versNote, treeDocHandle, lastBuild,
                 tree, builtFrom, theVersion, menuOpen, lastClick, versions,
                 vvLast>>
vars == <<quoteVars, configVars, versionVars>>

PyNone == "<None>"

Min(a, b) == IF a <= b THEN a ELSE b

\* The first n characters of s: what a QLineEdit with maxLength n keeps.
Left(s, n) == SubSeq(s, 1, Min(Len(s), n))

(***************************************************************************)
(* Quote symbols                                                           *)
(***************************************************************************)

\* Longest string handed to _checkQuoteSymbol in the function's own check.
MaxQuoteLen == 3

\* Characters a quote string is made of: three allowed quote symbols and
\* two other characters.
QuoteChars == {"'", ">", "<", "x", "y"}

\* nwQuotes.SYMBOLS: the allowed quote symbols, each a one-character string.
SYMBOLS == {<<"'">>, <<">">>, <<"<">>}

QuoteStrings(n) == UNION {[1..k -> QuoteChars] : k \in 0..n}

\* The mutant of checkQuoteSymbol: the membership test is lost.
checkQuoteSymbolNoMember(toCheckArg) ==
    IF Len(toCheckArg) # 1 THEN FALSE ELSE TRUE

checkQuoteSymbol(toCheckArg) ==
    IF Len(toCheckArg) # 1
    THEN FALSE
    ELSE IF toCheckArg \in SYMBOLS THEN TRUE ELSE FALSE

QuoteInit ==
    /\ toCheck \in QuoteStrings(MaxQuoteLen)
    /\ checkRet = "not called"

\* One call of _checkQuoteSymbol on the current input.
CallCheckQuoteSymbol ==
    /\ checkRet = "not called"
    /\ checkRet' = IF checkQuoteSymbol(toCheck) THEN "True" ELSE "False"
    /\ UNCHANGED toCheck

\* The next input.
NextQuoteInput ==
    /\ toCheck' \in QuoteStrings(MaxQuoteLen)
    /\ checkRet' = "not called"

(***************************************************************************)
(* The preferences dialog                                                  *)
(***************************************************************************)

\* setMaxLength(1) of the four quote fields.
QuoteMaxLength == 1

\* What a user can put in a quote field before the field cuts it: nothing,
\* an allowed symbol, another character, and two longer strings.
TypedStrings ==
    {<<>>, <<"'">>, <<">">>, <<"x">>, <<"'", ">">>, <<"x", "'">>}

Themes == {"default", "dark"}

\* The mutant of storeQuote: the field is stored whatever the check says.
storeQuoteUnchecked(old, new) == new

\* saveValues, one quote field: the config entry after the field's check.
storeQuote(old, new) == IF checkQuoteSymbol(new) THEN new ELSE old

\* saveValues, one quote field: the alerts raised so far.
quoteAlerts(alerts, new) ==
    IF checkQuoteSymbol(new)
    THEN alerts
    ELSE Append(alerts, [msg |-> "Invalid quote symbol", symbol |-> new,
                         level |-> "ERROR"])

\* The mutant of quoteValid: the flag takes the result of the last check.
quoteValidLast(validEntries, new) == checkQuoteSymbol(new)

\* saveValues, one quote field: validEntries after the field's check.
quoteValid(validEntries, new) ==
    IF checkQuoteSymbol(new) THEN validEntries ELSE FALSE

\* GuiConfigEditGeneralTab.saveValues: the config entries it writes and
\* (validEntries, needsRestart).
generalTabSaveValues ==
    [guiTheme |-> selectTheme,
     backupOnClose |-> backupOnClose,
     askBeforeBackup |-> askBeforeBackup,
     confChanged |-> TRUE,
     validEntries |-> TRUE,
     needsRestart |-> (guiTheme # selectTheme)]

\* GuiConfigEditGeneral.saveValues: (validEntries, needsRestart).
generalSaveValues ==
    [confChanged |-> TRUE, validEntries |-> TRUE, needsRestart |-> FALSE]

\* The mutant of setConfChanged: the flag is raised by a valid save only.
setConfChangedIfValid(validEntries) == validEntries

\* GuiConfigEditEditor.saveValues, its last assignment: confChanged is set
\* whatever validEntries holds.
setConfChanged(validEntries) == TRUE

\* GuiConfigEditEditor.saveValues: the two config lists, the alerts raised
\* and (validEntries, needsRestart).
editorSaveValues ==
    LET v1 == quoteValid(TRUE, quoteSingleStyleO)
        v2 == quoteValid(v1, quoteSingleStyleC)
        v3 == quoteValid(v2, quoteDoubleStyleO)
        v4 == quoteValid(v3, quoteDoubleStyleC)
        a1 == quoteAlerts(<<>>, quoteSingleStyleO)
        a2 == quoteAlerts(a1, quoteSingleStyleC)
        a3 == quoteAlerts(a2, quoteDoubleStyleO)
        a4 == quoteAlerts(a3, quoteDoubleStyleC)
    IN  [fmtSingleQuotes |->
             <<storeQuote(fmtSingleQuotes[1], quoteSingleStyleO),
               storeQuote(fmtSingleQuotes[2], quoteSingleStyleC)>>,
         fmtDoubleQuotes |->
             <<storeQuote(fmtDoubleQuotes[1], quoteDoubleStyleO),
               storeQuote(fmtDoubleQuotes[2], quoteDoubleStyleC)>>,
         alerts |-> a4,
         confChanged |-> setConfChanged(v4),
         validEntries |-> v4,
         needsRestart |-> FALSE]

ConfigInit ==
    /\ fmtSingleQuotes \in {<<<<"'">>, <<"'">>>>, <<<<">">>, <<"'">>>>}
    /\ fmtDoubleQuotes = <<<<">">>, <<">">>>>
    /\ guiTheme = "default"
    /\ confChanged = FALSE
    /\ quoteSingleStyleO = Left(fmtSingleQuotes[1], QuoteMaxLength)
    /\ quoteSingleStyleC = Left(fmtSingleQuotes[2], QuoteMaxLength)
    /\ quoteDoubleStyleO = Left(fmtDoubleQuotes[1], QuoteMaxLength)
    /\ quoteDoubleStyleC = Left(fmtDoubleQuotes[2], QuoteMaxLength)
    /\ selectTheme = guiTheme
    /\ dlgState = "open"
    /\ cfgLast = [op |-> "init", tabs |-> <<>>, alerts |-> <<>>,
                  info |-> FALSE, accepted |-> FALSE]

\* The two backup switches as __init__ sets them from the config.
BackupInit(onClose, ask) ==
    /\ confBackupOnClose = onClose
    /\ confAskBeforeBackup = ask
    /\ backupOnClose = confBackupOnClose
    /\ askBeforeBackup = confAskBeforeBackup

cfgEdit(name) ==
    [op |-> name, tabs |-> <<>>, alerts |-> <<>>, info |-> FALSE,
     accepted |-> FALSE]

\* GuiConfigEditor.__init__ on a later opening of the dialog: the widgets
\* are filled from the config.
OpenDialog ==
    /\ dlgState # "open"
    /\ quoteSingleStyleO' = Left(fmtSingleQuotes[1], QuoteMaxLength)
    /\ quoteSingleStyleC' = Left(fmtSingleQuotes[2], QuoteMaxLength)
    /\ quoteDoubleStyleO' = Left(fmtDoubleQuotes[1], QuoteMaxLength)
    /\ quoteDoubleStyleC' = Left(fmtDoubleQuotes[2], QuoteMaxLength)
    /\ selectTheme' = guiTheme
    /\ dlgState' = "open"
    /\ backupOnClose' = confBackupOnClose
    /\ askBeforeBackup' = confAskBeforeBackup
    /\ cfgLast' = cfgEdit("open")
    /\ UNCHANGED <<fmtSingleQuotes, fmtDoubleQuotes, guiTheme, confChanged,
                   confBackupOnClose, confAskBeforeBackup>>

\* The user edits a quote field.
EditSingleStyleO ==
    /\ dlgState = "open"
    /\ \E s \in TypedStrings : quoteSingleStyleO' = Left(s, QuoteMaxLength)
    /\ cfgLast' = cfgEdit("edit")
    /\ UNCHANGED <<quoteSingleStyleC, quoteDoubleStyleO, quoteDoubleStyleC,
                   fmtSingleQuotes, fmtDoubleQuotes, guiTheme, confChanged,
                   selectTheme, dlgState, backupVars>>

EditSingleStyleC ==
    /\ dlgState = "open"
    /\ \E s \in TypedStrings : quoteSingleStyleC' = Left(s, QuoteMaxLength)
    /\ cfgLast' = cfgEdit("edit")
    /\ UNCHANGED <<quoteSingleStyleO, quoteDoubleStyleO, quoteDoubleStyleC,
                   fmtSingleQuotes, fmtDoubleQuotes, guiTheme, confChanged,
                   selectTheme, dlgState, backupVars>>

EditDoubleStyleO ==
    /\ dlgState = "open"
    /\ \E s \in TypedStrings : quoteDoubleStyleO' = Left(s, QuoteMaxLength)
    /\ cfgLast' = cfgEdit("edit")
    /\ UNCHANGED <<quoteSingleStyleO, quoteSingleStyleC, quoteDoubleStyleC,
                   fmtSingleQuotes, fmtDoubleQuotes, guiTheme, confChanged,
                   selectTheme, dlgState, backupVars>>

EditDoubleStyleC ==
    /\ dlgState = "open"
    /\ \E s \in TypedStrings : quoteDoubleStyleC' = Left(s, QuoteMaxLength)
    /\ cfgLast' = cfgEdit("edit")
    /\ UNCHANGED <<quoteSingleStyleO, quoteSingleStyleC, quoteDoubleStyleO,
                   fmtSingleQuotes, fmtDoubleQuotes, guiTheme, confChanged,
                   selectTheme, dlgState, backupVars>>

\* The user picks a colour theme.
SelectTheme ==
    /\ dlgState = "open"
    /\ \E t \in Themes : selectTheme' = t
    /\ cfgLast' = cfgEdit("edit")
    /\ UNCHANGED <<quoteSingleStyleO, quoteSingleStyleC, quoteDoubleStyleO,
                   quoteDoubleStyleC, fmtSingleQuotes, fmtDoubleQuotes,
                   guiTheme, confChanged, dlgState, backupVars>>

\* The mutant of toggledBackupOnClose: the test of theState is inverted.
toggledBackupOnCloseInverted(theState, ask) == IF theState THEN FALSE ELSE ask

\* _toggledBackupOnClose(theState): the state of askBeforeBackup after it.
toggledBackupOnClose(theState, ask) == IF ~theState THEN FALSE ELSE ask

\* The user flips the switch 'Run backup when closing project'; its toggled
\* signal runs _toggledBackupOnClose with the new state.
ToggleBackupOnClose ==
    /\ dlgState = "open"
    /\ backupOnClose' = ~backupOnClose
    /\ askBeforeBackup' = toggledBackupOnClose(backupOnClose', askBeforeBackup)
    /\ cfgLast' = cfgEdit("toggledBackupOnClose")
    /\ UNCHANGED <<quoteSingleStyleO, quoteSingleStyleC, quoteDoubleStyleO,
                   quoteDoubleStyleC, fmtSingleQuotes, fmtDoubleQuotes,
                   guiTheme, confChanged, selectTheme, dlgState,
                   confBackupOnClose, confAskBeforeBackup>>

\* The user flips the switch 'Ask before running backup'; no slot is
\* connected to it.
ToggleAskBeforeBackup ==
    /\ dlgState = "open"
    /\ askBeforeBackup' = ~askBeforeBackup
    /\ cfgLast' = cfgEdit("edit")
    /\ UNCHANGED <<quoteSingleStyleO, quoteSingleStyleC, quoteDoubleStyleO,
                   quoteDoubleStyleC, fmtSingleQuotes, fmtDoubleQuotes,
                   guiTheme, confChanged, selectTheme, dlgState,
                   backupOnClose, confBackupOnClose, confAskBeforeBackup>>

\* GuiConfigEditor._doSave: the OK button.
doSave ==
    /\ dlgState = "open"
    /\ LET g == generalTabSaveValues
           m == generalSaveValues
           e == editorSaveValues
           validEntries == (TRUE /\ g.validEntries) /\ m.validEntries
                               /\ e.validEntries
           needsRestart == (FALSE \/ g.needsRestart) \/ m.needsRestart
                               \/ e.needsRestart
       IN  /\ guiTheme' = g.guiTheme
           /\ confBackupOnClose' = g.backupOnClose
           /\ confAskBeforeBackup' = g.askBeforeBackup
           /\ fmtSingleQuotes' = e.fmtSingleQuotes
           /\ fmtDoubleQuotes' = e.fmtDoubleQuotes
           /\ confChanged' = e.confChanged
           /\ dlgState' = IF validEntries THEN "accepted" ELSE "open"
           /\ cfgLast' = [op |-> "doSave",
                          tabs |-> <<"tabGeneral", "tabMain", "tabEditor">>,
                          alerts |-> e.alerts,
                          info |-> needsRestart,
                          accepted |-> validEntries]
    /\ UNCHANGED <<quoteSingleStyleO, quoteSingleStyleC, quoteDoubleStyleO,
                   quoteDoubleStyleC, selectTheme, backupOnClose,
                   askBeforeBackup>>

\* GuiConfigEditor._doClose: the Cancel button.
doClose ==
    /\ dlgState = "open"
    /\ dlgState' = "closed"
    /\ cfgLast' = cfgEdit("doClose")
    /\ UNCHANGED <<quoteSingleStyleO, quoteSingleStyleC, quoteDoubleStyleO,
                   quoteDoubleStyleC, fmtSingleQuotes, fmtDoubleQuotes,
                   guiTheme, confChanged, selectTheme, backupVars>>

(***************************************************************************)
(* The project, the documents and their versions                           *)
(***************************************************************************)

\* The handles in the project tree.
TreeHandles == {"h1", "h2"}

\* The handles a caller can pass: those in the tree, and one that is not.
Handles == TreeHandles \cup {"hx"}

\* Permanent versions over all documents that the store takes.
MaxVersions == 2

tr(label) == <<label>>

\* theProject.projTree[tHandle] is not None.
hasItem(tHandle) == tHandle \in TreeHandles

\* theProject.projTree[tHandle], for a handle in the tree.
projTree(tHandle) ==
    IF tHandle = "h1"
    THEN [itemName |-> <<"Chapter One">>, sessionBak |-> TRUE]
    ELSE [itemName |-> <<"Chapter Two">>, sessionBak |-> FALSE]

\* theProject.projOpened, a timestamp.
projOpened == 1

\* datetime.fromtimestamp(t).strftime("%x %X")
formatTime(t) == <<"%x %X", t>>

\* time(): the clock readings.
Times == {2}

\* NWDoc(theProject, tHandle).isValid(): the handle names an item of the
\* project and the document could be opened.
isValid(tHandle, fileOk) == hasItem(tHandle) /\ fileOk

\* NWDoc(theProject, tHandle).listVersions()
listVersions(vers, tHandle) == vers[tHandle]

versionNames ==
    [h1 |-> <<"h1.v1", "h1.v2", "h1.v3", "h1.v4">>,
     h2 |-> <<"h2.v1", "h2.v2", "h2.v3", "h2.v4">>]

RECURSIVE totalVersions(_, _)
totalVersions(vers, hs) ==
    IF hs = {}
    THEN 0
    ELSE LET h == CHOOSE x \in hs : TRUE
         IN  Len(vers[h]) + totalVersions(vers, hs \ {h})

\* NWDoc(theProject, tHandle).savePermanentVersion(note), when it succeeds:
\* the store with one more version of the document.
savePermanentVersion(vers, tHandle, note) ==
    [vers EXCEPT ![tHandle] =
        Append(@, [name |-> versionNames[tHandle][Len(@) + 1],
                   date |-> totalVersions(vers, Handles) + 1,
                   note |-> note])]

(***************************************************************************)
(* GuiVersionView                                                          *)
(***************************************************************************)

\* versNote.setMaxLength(200)
VersNoteMaxLength == 200

Whitespace == {" "}

\* The texts typed into the note field.
NoteTexts == {<<>>, <<" ">>, <<" ", "a", " ">>, <<"a", " ", "a">>}

RECURSIVE lstrip(_)
lstrip(s) ==
    IF s # <<>> /\ Head(s) \in Whitespace THEN lstrip(Tail(s)) ELSE s

RECURSIVE rstrip(_)
rstrip(s) ==
    IF s # <<>> /\ s[Len(s)] \in Whitespace
    THEN rstrip(SubSeq(s, 1, Len(s) - 1))
    ELSE s

\* The mutant of strip: only the leading whitespace is removed.
stripLeading(s) == lstrip(s)

\* str.strip()
strip(s) == rstrip(lstrip(s))

\* A call made by a handler: the callee, its arguments and its answer.
Call(op, args, ret) == [op |-> op, args |-> args, ret |-> ret]

Last(op, arg, ret, calls) ==
    [op |-> op, arg |-> arg, ret |-> ret, calls |-> calls]

\* _updateDocument: the header text for a handle.
headerText(tHandle) ==
    IF tHandle = PyNone
    THEN tr("None")
    ELSE IF ~hasItem(tHandle) THEN tr("None") ELSE projTree(tHandle).itemName

(***************************************************************************)
(* GuiVersionTree                                                          *)
(***************************************************************************)

Item(text, date, data, children) ==
    [text |-> text, date |-> date, data |-> data, children |-> children]

\* The mutant of clearedRows: QTreeWidget.clear() is not called.
clearedRowsKept(rows) == rows

\* clearTree: the rows after self.clear().
clearedRows(rows) == <<>>

\* populateTree: the child of the session group.
sessItem(nwItem) ==
    IF nwItem.sessionBak
    THEN Item(tr("Current Session"), formatTime(projOpened), "Session", <<>>)
    ELSE Item(tr("None"), <<>>, "None", <<>>)

\* populateTree: the children of the permanent group.
versItems(versList) ==
    IF versList # <<>>
    THEN [i \in 1..Len(versList) |->
             Item(versList[i].note, formatTime(versList[i].date),
                  versList[i].name, <<>>)]
    ELSE <<Item(tr("None"), <<>>, "None", <<>>)>>

\* populateTree(tHandle): the tree's _docHandle, rows and _lastBuild after
\* the call, and the handle the rows were built from.
populateTree(tHandle, vers, now) ==
    IF ~hasItem(tHandle)
    THEN [docHandle |-> tHandle, rows |-> tree, lastBuild |-> lastBuild,
          builtFrom |-> builtFrom]
    ELSE LET nwItem == projTree(tHandle)
             sessDir == Item(tr("Session Version"), <<>>, "None",
                             <<sessItem(nwItem)>>)
             versDir == Item(tr("Permanent Versions"), <<>>, "None",
                             versItems(listVersions(vers, tHandle)))
         IN  [docHandle |-> tHandle,
              rows |-> Append(Append(clearedRows(tree), sessDir), versDir),
              lastBuild |-> now,
              builtFrom |-> tHandle]

\* The places a right click can land: a group, a child, or blank space.
Positions ==
    {<<>>} \cup {<<i>> : i \in 1..Len(tree)}
           \cup UNION {{<<i, j>> : j \in 1..Len(tree[i].children)} :
                       i \in 1..Len(tree)}

\* self.itemAt(clickPos), for a position on a row.
itemAt(pos) ==
    IF Len(pos) = 1 THEN tree[pos[1]] ELSE tree[pos[1]].children[pos[2]]

\* The mutant of opensMenu: the menu opens on every row.
opensMenuAlways(version) == TRUE

\* _rightClickMenu: the test that lets the menu open.
opensMenu(version) == version # "None"

\* GuiVersionTreeMenu.setVersion
setVersion(version) == IF version = "None" THEN PyNone ELSE version

(***************************************************************************)
(* The version view's handlers                                             *)
(***************************************************************************)

pyBool(b) == IF b THEN "True" ELSE "False"

makeAlert(label) == Call("makeAlert", <<tr(label), "ERROR">>, "None")

\* The mutant of createFlow: a failed save is not told apart from a good one.
createFlowIgnoresSave(handle, valid, text, saveOk) ==
    LET note == strip(text)
        cSave == Call("saveDocument", <<>>, "None")
        cValid == Call("isValid", <<handle>>, pyBool(valid))
    IN  IF handle = PyNone
        THEN [ret |-> "False", calls |-> <<>>, note |-> note,
              saved |-> FALSE, populate |-> FALSE]
        ELSE IF ~valid
        THEN [ret |-> "False", calls |-> <<cSave, cValid>>, note |-> note,
              saved |-> FALSE, populate |-> FALSE]
        ELSE IF note = <<>>
        THEN [ret |-> "False",
              calls |-> <<cSave, cValid,
                          makeAlert("Please provide a version note.")>>,
              note |-> note, saved |-> FALSE, populate |-> FALSE]
        ELSE [ret |-> "True",
              calls |-> <<cSave, cValid,
                          Call("savePermanentVersion", <<handle, note>>,
                               pyBool(saveOk)),
                          Call("populateTree", <<handle>>, "None")>>,
              note |-> note, saved |-> saveOk, populate |-> TRUE]

\* _createPermamentVersion with two of its steps switchable: the test of
\* the handle against None, and the call of saveDocument.
createFlowVariant(handle, valid, text, saveOk, checksHandle, savesDocument) ==
    LET note == strip(text)
        cSave == IF savesDocument
                 THEN <<Call("saveDocument", <<>>, "None")>>
                 ELSE <<>>
        cValid == <<Call("isValid", <<handle>>, pyBool(valid))>>
    IN  IF checksHandle /\ handle = PyNone
        THEN [ret |-> "False", calls |-> <<>>, note |-> note,
              saved |-> FALSE, populate |-> FALSE]
        ELSE IF ~valid
        THEN [ret |-> "False", calls |-> cSave \o cValid, note |-> note,
              saved |-> FALSE, populate |-> FALSE]
        ELSE IF note = <<>>
        THEN [ret |-> "False",
              calls |-> cSave \o cValid \o
                        <<makeAlert("Please provide a version note.")>>,
              note |-> note, saved |-> FALSE, populate |-> FALSE]
        ELSE IF ~saveOk
        THEN [ret |-> "False",
              calls |-> cSave \o cValid \o
                        <<Call("savePermanentVersion", <<handle, note>>,
                               "False"),
                          makeAlert("Failed to save new version.")>>,
              note |-> note, saved |-> FALSE, populate |-> FALSE]
        ELSE [ret |-> "True",
              calls |-> cSave \o cValid \o
                        <<Call("savePermanentVersion", <<handle, note>>,
                               "True"),
                          Call("populateTree", <<handle>>, "None")>>,
              note |-> note, saved |-> TRUE, populate |-> TRUE]

\* The mutant of createFlow: the handle is not tested against None.
createFlowNoHandleTest(handle, valid, text, saveOk) ==
    createFlowVariant(handle, valid, text, saveOk, FALSE, TRUE)

\* The mutant of createFlow: the open document is not saved first.
createFlowNoSaveDocument(handle, valid, text, saveOk) ==
    createFlowVariant(handle, valid, text, saveOk, TRUE, FALSE)

\* _createPermamentVersion, for the view's handle, the answer of isValid(),
\* the note field's text and the answer of savePermanentVersion(): the
\* value returned, the calls made in order, the note passed, whether a
\* version was stored and whether the tree is populated again.
createFlow(handle, valid, text, saveOk) ==
    LET note == strip(text)
        cSave == Call("saveDocument", <<>>, "None")
        cValid == Call("isValid", <<handle>>, pyBool(valid))
    IN  IF handle = PyNone
        THEN [ret |-> "False", calls |-> <<>>, note |-> note,
              saved |-> FALSE, populate |-> FALSE]
        ELSE IF ~valid
        THEN [ret |-> "False", calls |-> <<cSave, cValid>>, note |-> note,
              saved |-> FALSE, populate |-> FALSE]
        ELSE IF note = <<>>
        THEN [ret |-> "False",
              calls |-> <<cSave, cValid,
                          makeAlert("Please provide a version note.")>>,
              note |-> note, saved |-> FALSE, populate |-> FALSE]
        ELSE IF ~saveOk
        THEN [ret |-> "False",
              calls |-> <<cSave, cValid,
                          Call("savePermanentVersion", <<handle, note>>,
                               "False"),
                          makeAlert("Failed to save new version.")>>,
              note |-> note, saved |-> FALSE, populate |-> FALSE]
        ELSE [ret |-> "True",
              calls |-> <<cSave, cValid,
                          Call("savePermanentVersion", <<handle, note>>,
                               "True"),
                          Call("populateTree", <<handle>>, "None")>>,
              note |-> note, saved |-> TRUE, populate |-> TRUE]

\* What savePermanentVersion can answer: it fails once the store is full.
SaveOutcomes ==
    IF totalVersions(versions, Handles) < MaxVersions
    THEN BOOLEAN
    ELSE {FALSE}

VersionInit ==
    /\ viewDocHandle = PyNone
    /\ docHeader = tr("None")
    /\ versNote = <<>>
    /\ treeDocHandle = PyNone
    /\ lastBuild = 0
    /\ tree = <<>>
    /\ builtFrom = PyNone
    /\ theVersion = PyNone
    /\ menuOpen = FALSE
    /\ lastClick = [pos |-> <<>>, data |-> PyNone]
    /\ versions = [h \in Handles |-> <<>>]
    /\ vvLast = Last("init", PyNone, "None", <<>>)

\* The user types a version note.
EditVersNote ==
    /\ ~menuOpen
    /\ \E text \in NoteTexts : versNote' = Left(text, VersNoteMaxLength)
    /\ vvLast' = Last("edit", PyNone, "None", <<>>)
    /\ UNCHANGED <<viewDocHandle, docHeader, treeDocHandle, lastBuild, tree,
                   builtFrom, theVersion, menuOpen, lastClick, versions>>

\* GuiVersionView.clearWidget
clearWidget ==
    /\ ~menuOpen
    /\ viewDocHandle' = PyNone
    /\ tree' = clearedRows(tree)
    /\ lastBuild' = 0
    /\ builtFrom' = PyNone
    /\ docHeader' = headerText(PyNone)
    /\ vvLast' = Last("clearWidget", PyNone, "None", <<>>)
    /\ UNCHANGED <<versNote, treeDocHandle, theVersion, menuOpen, lastClick,
                   versions>>

\* GuiVersionView.doUpdateDocument(tHandle)
doUpdateDocument ==
    /\ ~menuOpen
    /\ \E tHandle \in Handles, now \in Times :
         LET t == populateTree(tHandle, versions, now)
         IN  /\ viewDocHandle' = tHandle
             /\ docHeader' = headerText(tHandle)
             /\ treeDocHandle' = t.docHandle
             /\ tree' = t.rows
             /\ lastBuild' = t.lastBuild
             /\ builtFrom' = t.builtFrom
             /\ vvLast' = Last("doUpdateDocument", tHandle, "None",
                    <<Call("populateTree", <<tHandle>>, "None")>>)
    /\ UNCHANGED <<versNote, theVersion, menuOpen, lastClick, versions>>

\* GuiVersionView._createPermamentVersion: the add button.
createPermamentVersion ==
    /\ ~menuOpen
    /\ \E fileOk \in BOOLEAN, saveOk \in SaveOutcomes, now \in Times :
         LET f == createFlow(viewDocHandle, isValid(viewDocHandle, fileOk),
                             versNote, saveOk)
             vers == IF f.saved
                     THEN savePermanentVersion(versions, viewDocHandle, f.note)
                     ELSE versions
             t == IF f.populate
                  THEN populateTree(viewDocHandle, vers, now)
                  ELSE [docHandle |-> treeDocHandle, rows |-> tree,
                        lastBuild |-> lastBuild, builtFrom |-> builtFrom]
         IN  /\ versions' = vers
             /\ treeDocHandle' = t.docHandle
             /\ tree' = t.rows
             /\ lastBuild' = t.lastBuild
             /\ builtFrom' = t.builtFrom
             /\ vvLast' = Last("createPermamentVersion", viewDocHandle, f.ret,
                               f.calls)
    /\ UNCHANGED <<viewDocHandle, docHeader, versNote, theVersion, menuOpen,
                   lastClick>>

\* GuiVersionTree._rightClickMenu(clickPos)
rightClickMenu ==
    /\ ~menuOpen
    /\ \E clickPos \in Positions :
         IF clickPos = <<>>
         THEN /\ vvLast' = Last("rightClickMenu", PyNone, "None", <<>>)
              /\ UNCHANGED <<theVersion, menuOpen, lastClick>>
         ELSE LET version == itemAt(clickPos).data
              IN  /\ lastClick' = [pos |-> clickPos, data |-> version]
                  /\ IF opensMenu(version)
                     THEN /\ theVersion' = setVersion(version)
                          /\ menuOpen' = TRUE
                          /\ vvLast' = Last("rightClickMenu", version, "None",
                                 <<Call("exec_", <<>>, "None")>>)
                     ELSE /\ vvLast' = Last("rightClickMenu", version, "None",
                                            <<>>)
                          /\ UNCHANGED <<theVersion, menuOpen>>
    /\ UNCHANGED <<viewDocHandle, docHeader, versNote, treeDocHandle, lastBuild,
                   tree, builtFrom, versions>>

\* The menu is closed without a choice.
dismissMenu ==
    /\ menuOpen
    /\ menuOpen' = FALSE
    /\ vvLast' = Last("dismissMenu", PyNone, "None", <<>>)
    /\ UNCHANGED <<viewDocHandle, docHeader, versNote, treeDocHandle, lastBuild,
                   tree, builtFrom, theVersion, lastClick, versions>>

\* GuiVersionTreeMenu._doViewVersion and GuiVersionTree.showVersionDocument
doViewVersion ==
    /\ menuOpen
    /\ menuOpen' = FALSE
    /\ vvLast' = Last("doViewVersion", theVersion, "None",
           <<Call("viewDocument", <<treeDocHandle, theVersion>>, "None")>>)
    /\ UNCHANGED <<viewDocHandle, docHeader, versNote, treeDocHandle, lastBuild,
                   tree, builtFrom, theVersion, lastClick, versions>>

\* GuiVersionTreeMenu._doDiffVersion and GuiVersionTree.diffVersionDocument
doDiffVersion ==
    /\ menuOpen
    /\ menuOpen' = FALSE
    /\ vvLast' = Last("doDiffVersion", theVersion, "None", <<>>)
    /\ UNCHANGED <<viewDocHandle, docHeader, versNote, treeDocHandle, lastBuild,
                   tree, builtFrom, theVersion, lastClick, versions>>

\* GuiVersionTreeMenu._doRestoreVersion and
\* GuiVersionTree.restoreVersionDocument
doRestoreVersion ==
    /\ menuOpen
    /\ menuOpen' = FALSE
    /\ vvLast' = Last("doRestoreVersion", theVersion, "None", <<>>)
    /\ UNCHANGED <<viewDocHandle, docHeader, versNote, treeDocHandle, lastBuild,
                   tree, builtFrom, theVersion, lastClick, versions>>

\* GuiVersionTreeMenu._doDeleteVersion and
\* GuiVersionTree.deleteVersionDocument
doDeleteVersion ==
    /\ menuOpen
    /\ menuOpen' = FALSE
    /\ vvLast' = Last("doDeleteVersion", theVersion, "None", <<>>)
    /\ UNCHANGED <<viewDocHandle, docHeader, versNote, treeDocHandle, lastBuild,
                   tree, builtFrom, theVersion, lastClick, versions>>

(***************************************************************************)
(* The specifications                                                      *)
(***************************************************************************)

\* The function under test, not yet called.
QuoteIdle ==
    /\ toCheck = <<>>
    /\ checkRet = "not called"

\* The preferences dialog, never opened.
ConfigIdle ==
    /\ fmtSingleQuotes = <<<<"'">>, <<"'">>>>
    /\ fmtDoubleQuotes = <<<<"<">>, <<">">>>>
    /\ guiTheme = "default"
    /\ confChanged = FALSE
    /\ quoteSingleStyleO = <<>>
    /\ quoteSingleStyleC = <<>>
    /\ quoteDoubleStyleO = <<>>
    /\ quoteDoubleStyleC = <<>>
    /\ selectTheme = "default"
    /\ dlgState = "closed"
    /\ cfgLast = cfgEdit("init")
    /\ BackupInit(FALSE, TRUE)

\* The version view.
Init == QuoteIdle /\ ConfigIdle /\ VersionInit

Next ==
    \/ EditVersNote /\ UNCHANGED <<quoteVars, configVars>>
    \/ clearWidget /\ UNCHANGED <<quoteVars, configVars>>
    \/ doUpdateDocument /\ UNCHANGED <<quoteVars, configVars>>
    \/ createPermamentVersion /\ UNCHANGED <<quoteVars, configVars>>
    \/ rightClickMenu /\ UNCHANGED <<quoteVars, configVars>>
    \/ dismissMenu /\ UNCHANGED <<quoteVars, configVars>>
    \/ doViewVersion /\ UNCHANGED <<quoteVars, configVars>>
    \/ doDiffVersion /\ UNCHANGED <<quoteVars, configVars>>
    \/ doRestoreVersion /\ UNCHANGED <<quoteVars, configVars>>
    \/ doDeleteVersion /\ UNCHANGED <<quoteVars, configVars>>

Spec == Init /\ [][Next]_vars

\* The preferences dialog.
InitConfig ==
    QuoteIdle /\ ConfigInit /\ BackupInit(FALSE, TRUE) /\ VersionInit

NextConfig ==
    \/ OpenDialog /\ UNCHANGED <<quoteVars, versionVars>>
    \/ EditSingleStyleO /\ UNCHANGED <<quoteVars, versionVars>>
    \/ EditSingleStyleC /\ UNCHANGED <<quoteVars, versionVars>>
    \/ EditDoubleStyleO /\ UNCHANGED <<quoteVars, versionVars>>
    \/ EditDoubleStyleC /\ UNCHANGED <<quoteVars, versionVars>>
    \/ SelectTheme /\ UNCHANGED <<quoteVars, versionVars>>
    \/ doSave /\ UNCHANGED <<quoteVars, versionVars>>
    \/ doClose /\ UNCHANGED <<quoteVars, versionVars>>

SpecConfig == InitConfig /\ [][NextConfig]_vars

\* The preferences dialog, the backup switches of its General tab.
InitBackup ==
    /\ QuoteIdle
    /\ ConfigInit
    /\ \E onClose \in BOOLEAN, ask \in BOOLEAN : BackupInit(onClose, ask)
    /\ VersionInit

NextBackup ==
    \/ OpenDialog /\ UNCHANGED <<quoteVars, versionVars>>
    \/ ToggleBackupOnClose /\ UNCHANGED <<quoteVars, versionVars>>
    \/ ToggleAskBeforeBackup /\ UNCHANGED <<quoteVars, versionVars>>
    \/ SelectTheme /\ UNCHANGED <<quoteVars, versionVars>>
    \/ doSave /\ UNCHANGED <<quoteVars, versionVars>>
    \/ doClose /\ UNCHANGED <<quoteVars, versionVars>>

SpecBackup == InitBackup /\ [][NextBackup]_vars

\* _checkQuoteSymbol on every string up to MaxQuoteLen characters.
InitQuote == QuoteInit /\ ConfigIdle /\ VersionInit

NextQuote ==
    \/ CallCheckQuoteSymbol /\ UNCHANGED <<configVars, versionVars>>
    \/ NextQuoteInput /\ UNCHANGED <<configVars, versionVars>>

SpecQuote == InitQuote /\ [][NextQuote]_vars

(***************************************************************************)
(* Properties                                                              *)
(***************************************************************************)

\* A string is an accepted quote symbol: one character, of nwQuotes.SYMBOLS.
Accepted(s) == Len(s) = 1 /\ s \in SYMBOLS

AllFieldsAccepted ==
    /\ Accepted(quoteSingleStyleO)
    /\ Accepted(quoteSingleStyleC)
    /\ Accepted(quoteDoubleStyleO)
    /\ Accepted(quoteDoubleStyleC)

\* C1: _checkQuoteSymbol(s) returns True if and only if s has length 1 and
\* is one of nwQuotes.SYMBOLS; the empty string and every string of two or
\* more characters are rejected.
C1_CheckQuoteSymbol ==
    checkRet # "not called" =>
        /\ checkRet \in {"True", "False"}
        /\ (checkRet = "True") <=> (Len(toCheck) = 1 /\ toCheck \in SYMBOLS)
        /\ toCheck = <<>> => checkRet = "False"
        /\ Len(toCheck) >= 2 => checkRet = "False"

C1_Witness ==
    /\ checkRet = "True"
    /\ toCheck = <<"'">>

\* C2: a click on OK accepts the dialog if and only if all four quote fields
\* hold an accepted quote symbol; when one does not, an error alert is
\* raised and the dialog stays open.
C2_SaveAcceptsIffAllValid ==
    cfgLast.op = "doSave" =>
        /\ cfgLast.accepted <=> AllFieldsAccepted
        /\ (dlgState = "accepted") <=> AllFieldsAccepted
        /\ ~AllFieldsAccepted =>
              /\ dlgState = "open"
              /\ cfgLast.alerts # <<>>
              /\ \A i \in DOMAIN cfgLast.alerts :
                     cfgLast.alerts[i].level = "ERROR"

C2_Witness ==
    /\ cfgLast.op = "doSave"
    /\ Accepted(quoteSingleStyleO)
    /\ Accepted(quoteSingleStyleC)
    /\ Accepted(quoteDoubleStyleO)
    /\ ~Accepted(quoteDoubleStyleC)
    /\ dlgState = "open"
    /\ Len(cfgLast.alerts) = 1

QuotesInConfigAccepted ==
    /\ Accepted(fmtSingleQuotes[1])
    /\ Accepted(fmtSingleQuotes[2])
    /\ Accepted(fmtDoubleQuotes[1])
    /\ Accepted(fmtDoubleQuotes[2])

RejectedEntriesKept ==
    cfgLast'.op = "doSave" =>
        /\ ~Accepted(quoteSingleStyleO) =>
               fmtSingleQuotes'[1] = fmtSingleQuotes[1]
        /\ ~Accepted(quoteSingleStyleC) =>
               fmtSingleQuotes'[2] = fmtSingleQuotes[2]
        /\ ~Accepted(quoteDoubleStyleO) =>
               fmtDoubleQuotes'[1] = fmtDoubleQuotes[1]
        /\ ~Accepted(quoteDoubleStyleC) =>
               fmtDoubleQuotes'[2] = fmtDoubleQuotes[2]

\* C3: the four quote entries of the config, accepted quote symbols when the
\* dialog opens, are accepted quote symbols after every sequence of edits
\* and save attempts, and a save attempt leaves unchanged each entry whose
\* field was rejected.
C3_InvalidQuoteNeverStored ==
    []QuotesInConfigAccepted /\ [][RejectedEntriesKept]_vars

C3_Witness ==
    /\ cfgLast.op = "doSave"
    /\ quoteSingleStyleO = <<"x">>
    /\ quoteSingleStyleC = <<">">>
    /\ fmtSingleQuotes = <<<<"'">>, <<">">>>>

\* note is text without its leading and trailing whitespace.
IsStripOf(note, text) ==
    \E i \in 1..(Len(text) + 1), j \in 0..Len(text) :
        /\ note = SubSeq(text, i, j)
        /\ \A k \in 1..(i - 1) : text[k] \in Whitespace
        /\ \A k \in (j + 1)..Len(text) : text[k] \in Whitespace
        /\ note # <<>> =>
               /\ note[1] \notin Whitespace
               /\ note[Len(note)] \notin Whitespace

CallsOf(last, op) == {i \in DOMAIN last.calls : last.calls[i].op = op}

\* C4: savePermanentVersion is called only when the view's handle is not
\* None, isValid() answered true and the stripped note is not empty, and the
\* note passed is the note field's text without its leading and trailing
\* whitespace.
C4_SaveOnlyValidNamed ==
    \A i \in CallsOf(vvLast, "savePermanentVersion") :
        /\ vvLast.op = "createPermamentVersion"
        /\ viewDocHandle # PyNone
        /\ vvLast.calls[i].args[1] = viewDocHandle
        /\ \E j \in 1..(i - 1) :
               vvLast.calls[j] = Call("isValid", <<viewDocHandle>>, "True")
        /\ vvLast.calls[i].args[2] # <<>>
        /\ IsStripOf(vvLast.calls[i].args[2], versNote)

C4_Witness ==
    /\ versNote = <<" ", "a", " ">>
    /\ \E i \in CallsOf(vvLast, "savePermanentVersion") :
           vvLast.calls[i].args = <<"h1", <<"a">>>>

\* The rows show the document of handle h, whose versions are versList.
TreeShows(rows, h, versList) ==
    /\ Len(rows) = 2
    /\ rows[1].text = tr("Session Version")
    /\ rows[2].text = tr("Permanent Versions")
    /\ Len(rows[1].children) = 1
    /\ rows[1].children[1].data =
           IF projTree(h).sessionBak THEN "Session" ELSE "None"
    /\ IF versList = <<>>
       THEN /\ Len(rows[2].children) = 1
            /\ rows[2].children[1].data = "None"
       ELSE /\ Len(rows[2].children) = Len(versList)
            /\ \A i \in 1..Len(versList) :
                   /\ rows[2].children[i].data = versList[i].name
                   /\ rows[2].children[i].text = versList[i].note
                   /\ rows[2].children[i].date = formatTime(versList[i].date)

CreateStep ==
    vvLast'.op = "createPermamentVersion" =>
        LET saveRets == {vvLast'.calls[i].ret :
                            i \in CallsOf(vvLast', "savePermanentVersion")}
            alerted == \E i \in CallsOf(vvLast', "makeAlert") :
                           vvLast'.calls[i].args[2] = "ERROR"
            populated == CallsOf(vvLast', "populateTree") # {}
            noteAsked == \E i \in CallsOf(vvLast', "isValid") :
                             vvLast'.calls[i].ret = "True"
        IN  /\ vvLast'.ret \in {"True", "False"}
            /\ (vvLast'.ret = "True") <=> ("True" \in saveRets)
            /\ populated <=> ("True" \in saveRets)
            /\ "True" \in saveRets =>
                   /\ treeDocHandle' = viewDocHandle
                   /\ builtFrom' = viewDocHandle
                   /\ TreeShows(tree', viewDocHandle, versions'[viewDocHandle])
                   /\ tree' # tree
            /\ "True" \notin saveRets =>
                   /\ tree' = tree
                   /\ versions' = versions
            /\ "False" \in saveRets => alerted /\ vvLast'.ret = "False"
            /\ (noteAsked /\ IsStripOf(<<>>, versNote)) =>
                   /\ alerted
                   /\ saveRets = {}
                   /\ tree' = tree

C6_PopulateTreeShape ==
    (\/ vvLast.op = "doUpdateDocument" /\ hasItem(vvLast.arg)
     \/ vvLast.op = "createPermamentVersion" /\ vvLast.ret = "True") =>
        /\ hasItem(treeDocHandle)
        /\ builtFrom = treeDocHandle
        /\ TreeShows(tree, treeDocHandle,
                     listVersions(versions, treeDocHandle))

C6_Witness ==
    /\ vvLast.op = "doUpdateDocument"
    /\ vvLast.arg = "h1"
    /\ Len(versions["h1"]) = 2
    /\ Len(tree) = 2
    /\ Len(tree[2].children) = 2
    /\ tree[2].children[2].data = "h1.v2"

MenuOps ==
    {"doViewVersion", "doDiffVersion", "doRestoreVersion", "doDeleteVersion"}

\* C7: the menu opens only on a row whose identifier is not 'None', so no
\* menu action runs for a group row or a placeholder row, and when a menu
\* action runs the menu's version is not None and is the identifier of the
\* row that was right-clicked last.
C7_MenuActsOnRealVersions ==
    /\ (menuOpen \/ vvLast.op \in MenuOps) =>
           /\ Len(lastClick.pos) = 2
           /\ lastClick.data # "None"
           /\ theVersion # PyNone
           /\ theVersion = lastClick.data
    /\ vvLast.op \in MenuOps => vvLast.arg = lastClick.data

C7_Witness ==
    /\ vvLast.op = "doDeleteVersion"
    /\ vvLast.arg = "h1.v1"
    /\ lastClick.data = "h1.v1"

AllVersionNames ==
    UNION {{versions[h][i].name : i \in DOMAIN versions[h]} : h \in Handles}

\* C8: after 'Delete Version' on a permanent version row the version is no
\* longer among the versions of the document.
C8_DeleteRemovesVersion ==
    (vvLast.op = "doDeleteVersion" /\ vvLast.arg # "Session") =>
        vvLast.arg \notin AllVersionNames

\* C9: after doUpdateDocument(h) the header shows h's item name, or 'None'
\* when h has no item, and the tree holds no row built from another
\* document.
C9_ViewShowsOnlyDocument ==
    vvLast.op = "doUpdateDocument" =>
        /\ docHeader = IF hasItem(vvLast.arg)
                       THEN projTree(vvLast.arg).itemName
                       ELSE tr("None")
        /\ tree = <<>> \/ builtFrom = vvLast.arg

\* C10: every viewDocument(handle, tVersion=v) made by 'View Version' has v
\* 'Session' or a version name that listVersions() has for the document of
\* that handle.
C10_ViewPassesConsistentPair ==
    vvLast.op = "doViewVersion" =>
        \A i \in CallsOf(vvLast, "viewDocument") :
            LET handle == vvLast.calls[i].args[1]
                v == vvLast.calls[i].args[2]
            IN  \/ v = "Session"
                \/ /\ handle \in Handles
                   /\ \E k \in DOMAIN versions[handle] :
                          versions[handle][k].name = v

\* C11: the view's _docHandle and the tree's _docHandle are equal in every
\* state reached by doUpdateDocument, clearWidget and
\* _createPermamentVersion.
C11_HandlesAgree == viewDocHandle = treeDocHandle

ClearedState ==
    /\ viewDocHandle = PyNone
    /\ docHeader = tr("None")
    /\ tree = <<>>
    /\ lastBuild = 0

\* Only doUpdateDocument gives the cleared view a document again.
ClearedUntilUpdate ==
    (viewDocHandle = PyNone /\ viewDocHandle' # PyNone) =>
        vvLast'.op = "doUpdateDocument"

\* C12: right after clearWidget the view's handle is None, the header reads
\* 'None', the tree has no rows and _lastBuild is 0; until the next
\* doUpdateDocument every _createPermamentVersion returns False and calls
\* neither saveDocument, savePermanentVersion nor makeAlert.
C12_ClearWidgetClears ==
    /\ [](vvLast.op = "clearWidget" => ClearedState)
    /\ []((vvLast.op = "createPermamentVersion" /\ viewDocHandle = PyNone) =>
             /\ vvLast.ret = "False"
             /\ CallsOf(vvLast, "saveDocument") = {}
             /\ CallsOf(vvLast, "savePermanentVersion") = {}
             /\ CallsOf(vvLast, "makeAlert") = {})
    /\ [][ClearedUntilUpdate]_vars

\* A document got a version, the view was cleared, and the add button was
\* pressed with a note in the field.
C12_Witness ==
    /\ vvLast.op = "createPermamentVersion"
    /\ viewDocHandle = PyNone
    /\ Len(versions["h1"]) = 1
    /\ versNote = <<"a", " ", "a">>
    /\ tree = <<>>
    /\ vvLast.ret = "False"

\* C13: every call of savePermanentVersion comes after a call of
\* saveDocument made by the same run of _createPermamentVersion.
C13_SaveDocumentFirst ==
    \A i \in CallsOf(vvLast, "savePermanentVersion") :
        /\ vvLast.op = "createPermamentVersion"
        /\ \E j \in CallsOf(vvLast, "saveDocument") : j < i

C13_Witness ==
    /\ vvLast.op = "createPermamentVersion"
    /\ \E i \in CallsOf(vvLast, "savePermanentVersion") :
           /\ vvLast.calls[i].ret = "True"
           /\ vvLast.calls[1].op = "saveDocument"
           /\ i > 1

\* A step of _toggledBackupOnClose: the switch changed, and the slot ran.
ToggledStep ==
    /\ cfgLast'.op = "toggledBackupOnClose"
    /\ backupOnClose' # backupOnClose

\* C14: when the switch 'Run backup when closing project' is toggled to
\* off, 'Ask before running backup' is unchecked in the same step; when it
\* is toggled to on, 'Ask before running backup' keeps its state.
C14_BackupOffUnchecksAsk ==
    [][ToggledStep =>
          /\ (~backupOnClose' => ~askBeforeBackup')
          /\ (backupOnClose' => askBeforeBackup' = askBeforeBackup)]_vars

\* The switch was just turned off while the config still asks before a
\* backup that runs on close.
C14_Witness ==
    /\ cfgLast.op = "toggledBackupOnClose"
    /\ ~backupOnClose
    /\ ~askBeforeBackup
    /\ confBackupOnClose
    /\ confAskBeforeBackup

\* C15: every _doSave runs saveValues of the General tab, the spell-check
\* tab and the Editor tab, in that order, and leaves confChanged true, also
\* when the save is rejected and when no widget was edited.
C15_SaveRunsAllTabs ==
    cfgLast.op = "doSave" =>
        /\ cfgLast.tabs = <<"tabGeneral", "tabMain", "tabEditor">>
        /\ confChanged

\* A rejected save: an alert was raised, the dialog stays open.
C15_Witness ==
    /\ cfgLast.op = "doSave"
    /\ ~cfgLast.accepted
    /\ cfgLast.alerts # <<>>
    /\ dlgState = "open"
    /\ cfgLast.tabs = <<"tabGeneral", "tabMain", "tabEditor">>
    /\ confChanged

====
